---------------------------- MODULE Spec2Model ----------------------------
(***************************************************************************)
(* A model of app.py, the inspection / certification workflow tracker:     *)
(* the public-id generator, the depreciation schedule, the commission      *)
(* upsert, the role gate and the audit-log diff helper, with the request    *)
(* handlers that call them.                                                 *)
(*                                                                         *)
(* Encoding.  A nullable column or an absent value (Python None, SQL NULL)  *)
(* is NULL for numbers and the empty sequence for public_id.  A date is     *)
(* kept as its calendar year.  A string that the code builds (public_id)    *)
(* is a sequence of one-character strings.  Money is in hundredths          *)
(* (cents), a percentage is a whole number of percent.                      *)
(***************************************************************************)
EXTENDS Integers, Sequences, FiniteSets, TLC

VARIABLES
    inspection,   \* table inspection: id -> row
    cha,          \* table cha: id -> row
    report,       \* table report: set of rows
    invoice,      \* table invoice: set of rows
    commission,   \* table commission: set of rows
    report_file,  \* table report_file: set of rows
    annexure,     \* table annexure: set of rows
    last,         \* the request served last and what became of it
    procs,        \* requests in flight, statement by statement (SpecRace)
    call          \* argument and result of a pure helper (SpecDepr, SpecDiff)

vars == <<inspection, cha, report, invoice, commission, report_file, annexure,
          last, procs, call>>
db == <<inspection, cha, report, invoice, commission, report_file, annexure>>

-----------------------------------------------------------------------------
(* Bounds of the model *)

\* Largest primary key the inspection table hands out, per specification.
MaxId == 2
MaxCreated == 3
MaxMoneyId == 1
\* Largest primary key the cha table hands out.
MaxChaId == 1
\* Largest primary key of an inspection while requests interleave.
MaxRaceId == 1
\* Largest primary key of an inspection while creations interleave.
MaxRaceCreated == 3
\* Largest primary key of an inspection, and the most report files and annexure
\* rows, while reports are written and uploaded.
MaxFlowId == 1
MaxFiles == 1
\* The same while inspections and their dependents are deleted.
MaxCleanId == 1
MaxCleanFiles == 1
MaxAnnexures == 1

-----------------------------------------------------------------------------
(* Values *)

NULL == 0 - 1
\* a numeric form field that the request does not carry at all
ABSENT == 0 - 2
\* a text form field that the request does not carry
Absent == "absent"

Max(S) == CHOOSE x \in S : \A y \in S : y <= x

\* ===== Enums =====
ADMIN == "ADMIN"
ENGINEER == "ENGINEER"
ACCOUNTANT == "ACCOUNTANT"
Role_ALL == {ADMIN, ENGINEER, ACCOUNTANT}

PSIC == "PSIC"
CE_VAL == "CE_VAL"
CE_FIT == "CE_FIT"
InspectionType_ALL == {PSIC, CE_VAL, CE_FIT}

\* InspectionType.CODE_TO_ID_TOKEN.get(t, "GEN")
CODE_TO_ID_TOKEN(t) ==
    CASE t = PSIC -> <<"P", "S", "I", "C">>
      [] t = CE_VAL -> <<"C", "E", "-", "V", "A", "L">>
      [] t = CE_FIT -> <<"C", "E", "-", "F", "I", "T">>
      [] OTHER -> <<"G", "E", "N">>

DRAFT == "DRAFT"
UNDER_REVIEW == "UNDER_REVIEW"
COMPLETED == "COMPLETED"
REPORT_UPLOADED == "REPORT_UPLOADED"
INVOICED == "INVOICED"

-----------------------------------------------------------------------------
(* Strings of digits *)

DigitChars == <<"0", "1", "2", "3", "4", "5", "6", "7", "8", "9">>

\* str(n) for n >= 0: the decimal digits, no padding
RECURSIVE str(_)
str(n) ==
    IF n < 10 THEN <<DigitChars[n + 1]>>
    ELSE str(n \div 10) \o <<DigitChars[(n % 10) + 1]>>

\* zero padding on the left to at least w characters
RECURSIVE zfill(_, _)
zfill(s, w) == IF Len(s) >= w THEN s ELSE zfill(<<"0">> \o s, w)

\* f"{n:03d}"
format_03d(n) == zfill(str(n), 3)

\* SQLite strftime('%Y', date): the year in four digits
strftime_Y(date) == zfill(str(date), 4)

-----------------------------------------------------------------------------
(* Tables *)

NoPublicId == <<>>

\* SQLite rowid of an INTEGER PRIMARY KEY: one more than the largest in use
NextId(ids) == IF ids = {} THEN 1 ELSE Max(ids) + 1

\* func.max(col) over the rows: NULLs are skipped, NULL if nothing is left
func_max(S) == IF S \ {NULL} = {} THEN NULL ELSE Max(S \ {NULL})

\* x or 0
or0(x) == IF x = NULL THEN 0 ELSE x

\* the primary keys in use in a table kept as a set of rows
Ids(table) == {r.id : r \in table}

-----------------------------------------------------------------------------
(* Helpers *)

\* The session cookie of a request: nobody logged in
NoSession == [user_id |-> NULL, role |-> "NONE"]
\* The session of user 1, logged in as an admin
Admin1 == [user_id |-> 1, role |-> ADMIN]

\* the wrapper with the check of the role left out
role_required_any_role(roles, sess) ==
    IF sess.user_id = NULL \/ sess.user_id = 0 THEN "login" ELSE "body"

\* role_required(*roles): what the wrapper does with the request
role_required(roles, sess) ==
    IF sess.user_id = NULL \/ sess.user_id = 0 THEN "login"
    ELSE IF roles # {} /\ sess.role \notin roles THEN "dashboard"
    ELSE "body"

\* The rows the query of generate_public_id selects for inspection i
SameTypeYear(i, rows) ==
    {j \in DOMAIN rows :
        /\ rows[j].inspection_type = i.inspection_type
        /\ strftime_Y(rows[j].date) = str(i.date)}

\* generate_public_id(i), the query reading the table rows: the row i becomes
generate_public_id(i, rows) ==
    IF i.public_id # NoPublicId THEN i
    ELSE LET year == i.date
             type_token == CODE_TO_ID_TOKEN(i.inspection_type)
             max_seq == func_max({rows[j].seq_num : j \in SameTypeYear(i, rows)})
             next_seq == or0(max_seq) + 1
         IN [i EXCEPT !.seq_num = next_seq,
                      !.public_id = <<"I", "N", "S", "-">> \o type_token \o <<"-">>
                                    \o str(year) \o <<"-">> \o format_03d(next_seq)]

\* Inspection.public_id is unique=True: the commit of row i under key id fails
public_id_conflict(id, i, rows) ==
    /\ i.public_id # NoPublicId
    /\ \E j \in DOMAIN rows \ {id} : rows[j].public_id = i.public_id

\* DEPR_RULE
Y1 == 10
Y2 == 8
Y3 == 7
Y4PLUS == 5
CAP == 70

Min2(a, b) == IF a <= b THEN a ELSE b
Max2(a, b) == IF a >= b THEN a ELSE b

\* the schedule without its cap
compute_depreciation_pct_uncapped(year_of_manufacture, on_date) ==
    IF year_of_manufacture = NULL \/ year_of_manufacture = 0 THEN 0
    ELSE LET years == Max2(0, on_date - year_of_manufacture)
         IN (IF years >= 1 THEN Y1 ELSE 0) + (IF years >= 2 THEN Y2 ELSE 0)
            + (IF years >= 3 THEN Y3 ELSE 0)
            + (IF years >= 4 THEN Y4PLUS * (years - 3) ELSE 0)

\* the fourth year and the later ones counted from the third on
compute_depreciation_pct_early(year_of_manufacture, on_date) ==
    IF year_of_manufacture = NULL \/ year_of_manufacture = 0 THEN 0
    ELSE LET years == Max2(0, on_date - year_of_manufacture)
         IN Min2((IF years >= 1 THEN Y1 ELSE 0) + (IF years >= 2 THEN Y2 ELSE 0)
                 + (IF years >= 3 THEN Y3 ELSE 0)
                 + (IF years >= 4 THEN Y4PLUS * (years - 2) ELSE 0), CAP)

\* compute_depreciation_pct(year_of_manufacture, on_date)
compute_depreciation_pct(year_of_manufacture, on_date) ==
    IF year_of_manufacture = NULL \/ year_of_manufacture = 0 THEN 0
    ELSE LET years == Max2(0, on_date - year_of_manufacture)
             p1 == IF years >= 1 THEN Y1 ELSE 0
             p2 == IF years >= 2 THEN p1 + Y2 ELSE p1
             p3 == IF years >= 3 THEN p2 + Y3 ELSE p2
             pct == IF years >= 4 THEN p3 + Y4PLUS * (years - 3) ELSE p3
         IN Min2(pct, CAP)

-----------------------------------------------------------------------------
(* What a request leaves behind for the observer *)

NoGen == [called |-> FALSE, inspection_type |-> "", year |-> NULL,
          seq_num |-> NULL, public_id |-> NoPublicId]

\* generate_public_id ran on a row without public_id and turned it into g
Gen(g) == [called |-> TRUE, inspection_type |-> g.inspection_type, year |-> g.date,
           seq_num |-> g.seq_num, public_id |-> g.public_id]

\* upsert: the inspection upsert_commission_from_inspection ran for, if it ran;
\* form: what report_edit was posted with
Served(op, roles, sess, id, outcome, gen) ==
    [op |-> op, roles |-> roles, user_id |-> sess.user_id, role |-> sess.role,
     id |-> id, outcome |-> outcome, gen |-> gen, upsert |-> NULL, form |-> <<>>]

NoRequest == Served("none", {}, NoSession, NULL, "none", NoGen)

-----------------------------------------------------------------------------
(* Inspections *)

\* The type-specific part of inspection_create and inspection_edit
type_specific(i, form) ==
    IF i.inspection_type = CE_VAL
    THEN [i EXCEPT !.year_of_manufacture = form.year_of_manufacture,
                   !.depreciation_pct =
                       compute_depreciation_pct(or0(form.year_of_manufacture), i.date)]
    ELSE i

\* Inspection(...) as inspection_create builds it from the form
new_inspection(sess, form) ==
    type_specific(
        [public_id |-> NoPublicId,
         seq_num |-> NULL,
         date |-> form.date,
         status |-> IF form.status = Absent THEN DRAFT ELSE form.status,
         engineer_id |-> IF form.engineer_id # NULL THEN form.engineer_id
                         ELSE IF sess.role = ENGINEER THEN sess.user_id ELSE NULL,
         cha_id |-> IF form.cha_id \in {NULL, ABSENT} THEN NULL ELSE form.cha_id,
         inspection_type |-> IF form.inspection_type = Absent THEN PSIC
                             ELSE form.inspection_type,
         cha_commission_pct |-> form.cha_commission_pct,
         year_of_manufacture |-> NULL,
         depreciation_pct |-> NULL],
        form)

\* Annexure rows n more, for inspection_id, on top of table
add_annexures(table, inspection_id, n) ==
    LET base == IF table = {} THEN 0 ELSE Max(Ids(table))
    IN table \cup {[id |-> base + k, inspection_id |-> inspection_id] : k \in 1..n}

\* POST /inspections/new; form.annexure_descs is the number of entries of
\* annexure_description[] that are not blank
inspection_create(sess, form) ==
    LET roles == {ADMIN, ENGINEER}
        gate == role_required(roles, sess)
        id == NextId(DOMAIN inspection)
        \* db.session.add(i); db.session.commit()
        stored == inspection @@ (id :> new_inspection(sess, form))
        g == generate_public_id(stored[id], stored)
    IN /\ IF gate # "body"
          THEN /\ last' = Served("inspection_create", roles, sess, NULL, gate, NoGen)
               /\ UNCHANGED <<inspection, annexure>>
          ELSE IF public_id_conflict(id, g, stored)
          THEN \* the second commit raises IntegrityError; the first one stays
               /\ inspection' = stored
               /\ last' = Served("inspection_create", roles, sess, id,
                                 "IntegrityError", Gen(g))
               /\ UNCHANGED annexure
          ELSE /\ inspection' = [stored EXCEPT ![id] = g]
               /\ annexure' = IF g.inspection_type \in {CE_VAL, CE_FIT}
                               THEN add_annexures(annexure, id, form.annexure_descs)
                               ELSE annexure
               /\ last' = Served("inspection_create", roles, sess, id, "ok", Gen(g))
       /\ UNCHANGED <<cha, report, invoice, commission, procs, call, report_file>>

\* The row inspection_edit writes over row i
edited_inspection(sess, i, form) ==
    LET a == [i EXCEPT !.date = form.date,
                       !.cha_commission_pct = form.cha_commission_pct,
                       !.cha_id = IF form.cha_id = ABSENT THEN @ ELSE form.cha_id]
        b == IF sess.role = ADMIN
             THEN [a EXCEPT !.status = IF form.status = Absent THEN @ ELSE form.status,
                            !.engineer_id = IF form.engineer_id # NULL
                                            THEN form.engineer_id ELSE @,
                            !.inspection_type = IF form.inspection_type = Absent THEN @
                                                ELSE form.inspection_type]
             ELSE a
    IN type_specific(b, form)

\* inspection_edit: "ensure public id exists (e.g., if previously legacy entry)"
ensure_public_id_always(e, rows) ==
    generate_public_id([e EXCEPT !.public_id = NoPublicId], rows)

ensure_public_id(e, rows) ==
    IF e.public_id = NoPublicId THEN generate_public_id(e, rows) ELSE e

\* POST /inspections/<id>/edit
inspection_edit(sess, id, form) ==
    LET roles == {ADMIN, ENGINEER}
        gate == role_required(roles, sess)
        op == "inspection_edit"
    IN /\ IF gate # "body"
          THEN /\ last' = Served(op, roles, sess, id, gate, NoGen)
               /\ UNCHANGED inspection
          ELSE IF id \notin DOMAIN inspection
          THEN /\ last' = Served(op, roles, sess, id, "404", NoGen)
               /\ UNCHANGED inspection
          ELSE IF sess.role = ENGINEER /\ inspection[id].engineer_id # sess.user_id
          THEN /\ last' = Served(op, roles, sess, id, "unauthorized", NoGen)
               /\ UNCHANGED inspection
          ELSE LET e == edited_inspection(sess, inspection[id], form)
                   \* the query of generate_public_id flushes the edit first
                   flushed == [inspection EXCEPT ![id] = e]
                   g == ensure_public_id(e, flushed)
                   gen == IF e.public_id = NoPublicId THEN Gen(g) ELSE NoGen
               IN IF public_id_conflict(id, g, flushed)
                  THEN \* the commit raises IntegrityError: the edit is rolled back
                       /\ last' = Served(op, roles, sess, id, "IntegrityError", gen)
                       /\ UNCHANGED inspection
                  ELSE /\ inspection' = [inspection EXCEPT ![id] = g]
                       /\ last' = Served(op, roles, sess, id, "ok", gen)
       /\ UNCHANGED <<cha, report, invoice, commission, procs, call, report_file, annexure>>

\* inspection_delete with its loop over the files left out
delete_files_skipped(table, inspection_id) == table

\* inspection_delete: every ReportFile of the inspection is deleted
delete_files(table, inspection_id) ==
    {f \in table : f.inspection_id # inspection_id}

\* db.session.delete(i): Inspection.annexures is a one-to-many backref without
\* a delete cascade, so the flush de-associates the annexure rows of the
\* inspection (UPDATE annexure SET inspection_id = NULL) and keeps them
deassociate(table, inspection_id) ==
    {IF a.inspection_id = inspection_id THEN [a EXCEPT !.inspection_id = NULL] ELSE a
       : a \in table}

\* POST /inspections/<id>/delete
inspection_delete(sess, id) ==
    LET roles == {ADMIN}
        gate == role_required(roles, sess)
        op == "inspection_delete"
    IN IF gate # "body"
       THEN /\ last' = Served(op, roles, sess, id, gate, NoGen)
            /\ UNCHANGED db
            /\ UNCHANGED <<procs, call>>
       ELSE IF id \notin DOMAIN inspection
       THEN /\ last' = Served(op, roles, sess, id, "404", NoGen)
            /\ UNCHANGED db
            /\ UNCHANGED <<procs, call>>
       ELSE /\ report' = {r \in report : r.inspection_id # id}
            /\ invoice' = {r \in invoice : r.inspection_id # id}
            /\ commission' = {r \in commission : r.inspection_id # id}
            /\ report_file' = delete_files(report_file, id)
            /\ annexure' = deassociate(annexure, id)
            /\ inspection' = [j \in DOMAIN inspection \ {id} |-> inspection[j]]
            /\ last' = Served(op, roles, sess, id, "ok", NoGen)
            /\ UNCHANGED <<cha, procs, call>>

-----------------------------------------------------------------------------
(* Invoices, commissions, reports *)

SENT == "SENT"
PAID == "PAID"
FINAL == "FINAL"
DUE == "DUE"
PARTIAL == "PARTIAL"

\* round(n / d) to a whole number, a tie going to the even one (n >= 0, d > 0)
RoundDiv(n, d) ==
    LET q == n \div d
        r == n % d
    IN IF 2 * r < d THEN q
       ELSE IF 2 * r > d THEN q + 1
       ELSE IF q % 2 = 0 THEN q ELSE q + 1

\* calc_total(fee, tax_pct), in cents
calc_total(fee, tax_pct) == RoundDiv(or0(fee) * (100 + or0(tax_pct)), 100)

\* Table.query.filter_by(inspection_id=...).first()
first_for(table, inspection_id) ==
    LET rows == {r \in table : r.inspection_id = inspection_id}
    IN IF rows = {} THEN <<>>
       ELSE <<CHOOSE r \in rows : \A q \in rows : r.id <= q.id>>

\* the INSERT goes through whatever the table holds
unique_conflict_unchecked(table, inspection_id) == FALSE

\* inspection_id is unique=True in report, invoice and commission: the INSERT
\* of a row for inspection_id fails
unique_conflict(table, inspection_id) ==
    \E r \in table : r.inspection_id = inspection_id

new_report(table, inspection_id) ==
    [id |-> NextId(Ids(table)), inspection_id |-> inspection_id, status |-> DRAFT,
     body |-> ""]

\* ensure_report(inspection_id): the table afterwards
ensure_report(table, inspection_id) ==
    IF first_for(table, inspection_id) = <<>>
    THEN table \cup {new_report(table, inspection_id)}
    ELSE table

DefaultTax == 18

new_invoice(table, inspection_id) ==
    [id |-> NextId(Ids(table)), inspection_id |-> inspection_id, fee |-> 0,
     tax_pct |-> DefaultTax, total |-> calc_total(0, DefaultTax), status |-> DRAFT]

\* ensure_invoice(inspection_id): the table afterwards
ensure_invoice(table, inspection_id) ==
    IF first_for(table, inspection_id) = <<>>
    THEN table \cup {new_invoice(table, inspection_id)}
    ELSE table

\* the override counts only when it is not 0
commission_rate_truthy(i, chas) ==
    IF i.cha_commission_pct # NULL /\ i.cha_commission_pct # 0 THEN i.cha_commission_pct
    ELSE IF i.cha_id \in DOMAIN chas /\ chas[i.cha_id].commission_rate # NULL
    THEN chas[i.cha_id].commission_rate
    ELSE 0

\* upsert_commission_from_inspection: the rate, i.cha being the cha row that
\* i.cha_id names if there is one
commission_rate(i, chas) ==
    IF i.cha_commission_pct # NULL THEN i.cha_commission_pct
    ELSE IF i.cha_id \in DOMAIN chas /\ chas[i.cha_id].commission_rate # NULL
    THEN chas[i.cha_id].commission_rate
    ELSE 0

\* upsert_commission_from_inspection: the amount, in cents
commission_amount(id, i, chas, invoices) ==
    LET rate == commission_rate(i, chas)
        inv == first_for(invoices, id)
        fee == IF inv # <<>> THEN inv[1].fee ELSE 0
    IN RoundDiv(or0(fee) * or0(rate), 100)

\* the upsert writing a row anew, due again, over the one it finds
upsert_commission_reset(id, i, chas, invoices, table) ==
    LET amount == commission_amount(id, i, chas, invoices)
        com == first_for(table, id)
        row == [id |-> IF com = <<>> THEN NextId(Ids(table)) ELSE com[1].id,
                inspection_id |-> id, cha_id |-> i.cha_id, amount |-> amount,
                status |-> DUE]
    IN {c \in table : c.inspection_id # id} \cup {row}

\* upsert_commission_from_inspection(i): the commission table afterwards
upsert_commission_from_inspection(id, i, chas, invoices, table) ==
    LET amount == commission_amount(id, i, chas, invoices)
        com == first_for(table, id)
    IN IF com = <<>>
       THEN table \cup {[id |-> NextId(Ids(table)), inspection_id |-> id,
                         cha_id |-> i.cha_id, amount |-> amount, status |-> DUE]}
       ELSE (table \ {com[1]}) \cup {[com[1] EXCEPT !.cha_id = i.cha_id,
                                                     !.amount = amount]}

\* POST /chas
chas_list(sess, rate) ==
    LET roles == {ADMIN}
        gate == role_required(roles, sess)
        id == NextId(DOMAIN cha)
    IN /\ IF gate # "body"
          THEN /\ last' = Served("chas_list", roles, sess, NULL, gate, NoGen)
               /\ UNCHANGED cha
          ELSE /\ cha' = cha @@ (id :> [commission_rate |-> rate])
               /\ last' = Served("chas_list", roles, sess, id, "ok", NoGen)
       /\ UNCHANGED <<inspection, report, invoice, commission, procs, call, report_file, annexure>>

\* POST /chas/<cha_id>/update
chas_update(sess, cha_id, rate) ==
    LET roles == {ADMIN}
        gate == role_required(roles, sess)
        op == "chas_update"
    IN /\ IF gate # "body"
          THEN /\ last' = Served(op, roles, sess, cha_id, gate, NoGen)
               /\ UNCHANGED cha
          ELSE IF cha_id \notin DOMAIN cha
          THEN /\ last' = Served(op, roles, sess, cha_id, "404", NoGen)
               /\ UNCHANGED cha
          ELSE /\ cha' = [cha EXCEPT ![cha_id].commission_rate =
                               Max2(0, Min2(IF rate = ABSENT THEN or0(@) ELSE rate, 100))]
               /\ last' = Served(op, roles, sess, cha_id, "ok", NoGen)
       /\ UNCHANGED <<inspection, report, invoice, commission, procs, call, report_file, annexure>>

\* POST /chas/<cha_id>/delete
chas_delete(sess, cha_id) ==
    LET roles == {ADMIN}
        gate == role_required(roles, sess)
        op == "chas_delete"
    IN /\ IF gate # "body"
          THEN /\ last' = Served(op, roles, sess, cha_id, gate, NoGen)
               /\ UNCHANGED cha
          ELSE IF cha_id \notin DOMAIN cha
          THEN /\ last' = Served(op, roles, sess, cha_id, "404", NoGen)
               /\ UNCHANGED cha
          ELSE /\ cha' = [j \in DOMAIN cha \ {cha_id} |-> cha[j]]
               /\ last' = Served(op, roles, sess, cha_id, "ok", NoGen)
       /\ UNCHANGED <<inspection, report, invoice, commission, procs, call, report_file, annexure>>

\* GET /reports/<inspection_id>/edit
report_edit_get(sess, id) ==
    LET roles == {ADMIN, ENGINEER}
        gate == role_required(roles, sess)
        op == "report_edit"
    IN /\ IF gate # "body"
          THEN /\ last' = Served(op, roles, sess, id, gate, NoGen)
               /\ UNCHANGED report
          ELSE IF id \notin DOMAIN inspection
          THEN /\ last' = Served(op, roles, sess, id, "404", NoGen)
               /\ UNCHANGED report
          ELSE /\ report' = ensure_report(report, id)
               /\ last' = Served(op, roles, sess, id, "ok", NoGen)
       /\ UNCHANGED <<inspection, cha, invoice, commission, procs, call, report_file, annexure>>

\* the invoice row invoice_edit writes over inv on POST
edited_invoice(inv, form) ==
    LET fee == IF form.fee = ABSENT THEN or0(inv.fee) ELSE form.fee
        tax_pct == IF form.tax_pct = ABSENT THEN or0(inv.tax_pct) ELSE form.tax_pct
    IN [inv EXCEPT !.fee = fee, !.tax_pct = tax_pct, !.total = calc_total(fee, tax_pct),
                   !.status = IF form.status = Absent THEN @ ELSE form.status]

\* /invoices/<inspection_id>, GET (form = <<>>) or POST
invoice_edit(sess, id, form) ==
    LET roles == {ADMIN, ACCOUNTANT}
        gate == role_required(roles, sess)
        op == "invoice_edit"
    IN /\ IF gate # "body"
          THEN /\ last' = Served(op, roles, sess, id, gate, NoGen)
               /\ UNCHANGED <<inspection, invoice, commission>>
          ELSE IF id \notin DOMAIN inspection
          THEN /\ last' = Served(op, roles, sess, id, "404", NoGen)
               /\ UNCHANGED <<inspection, invoice, commission>>
          ELSE LET ensured == ensure_invoice(invoice, id)
                   inv == first_for(ensured, id)[1]
               IN IF form = <<>>
                  THEN /\ invoice' = ensured
                       /\ last' = Served(op, roles, sess, id, "ok", NoGen)
                       /\ UNCHANGED <<inspection, commission>>
                  ELSE LET e == edited_invoice(inv, form[1])
                           saved == (ensured \ {inv}) \cup {e}
                           i == IF e.status \in {SENT, PAID}
                                THEN [inspection[id] EXCEPT !.status = INVOICED]
                                ELSE inspection[id]
                       IN /\ invoice' = saved
                          /\ inspection' = [inspection EXCEPT ![id] = i]
                          /\ commission' = upsert_commission_from_inspection(
                                               id, i, cha, saved, commission)
                          /\ last' = [Served(op, roles, sess, id, "ok", NoGen)
                                         EXCEPT !.upsert = id]
       /\ UNCHANGED <<cha, report, procs, call, report_file, annexure>>

\* commission_generate without its check of CHA and override
commission_generate_unchecked(sess, id) ==
    LET roles == {ADMIN, ACCOUNTANT}
        gate == role_required(roles, sess)
        op == "commission_generate"
    IN /\ IF gate # "body"
          THEN /\ last' = Served(op, roles, sess, id, gate, NoGen)
               /\ UNCHANGED commission
          ELSE IF id \notin DOMAIN inspection
          THEN /\ last' = Served(op, roles, sess, id, "404", NoGen)
               /\ UNCHANGED commission
          ELSE /\ commission' = upsert_commission_from_inspection(
                                    id, inspection[id], cha, invoice, commission)
               /\ last' = [Served(op, roles, sess, id, "ok", NoGen) EXCEPT !.upsert = id]
       /\ UNCHANGED <<inspection, cha, report, invoice, procs, call, report_file, annexure>>

\* POST /commissions/generate/<inspection_id>
commission_generate(sess, id) ==
    LET roles == {ADMIN, ACCOUNTANT}
        gate == role_required(roles, sess)
        op == "commission_generate"
    IN /\ IF gate # "body"
          THEN /\ last' = Served(op, roles, sess, id, gate, NoGen)
               /\ UNCHANGED commission
          ELSE IF id \notin DOMAIN inspection
          THEN /\ last' = Served(op, roles, sess, id, "404", NoGen)
               /\ UNCHANGED commission
          ELSE IF /\ inspection[id].cha_id \notin DOMAIN cha
                  /\ inspection[id].cha_commission_pct = NULL
          THEN /\ last' = Served(op, roles, sess, id, "warning", NoGen)
               /\ UNCHANGED commission
          ELSE /\ commission' = upsert_commission_from_inspection(
                                    id, inspection[id], cha, invoice, commission)
               /\ last' = [Served(op, roles, sess, id, "ok", NoGen) EXCEPT !.upsert = id]
       /\ UNCHANGED <<inspection, cha, report, invoice, procs, call, report_file, annexure>>

\* POST /commissions/<commission_id>/mark
commission_mark(sess, commission_id, status) ==
    LET roles == {ADMIN, ACCOUNTANT}
        gate == role_required(roles, sess)
        op == "commission_mark"
        rows == {c \in commission : c.id = commission_id}
    IN /\ IF gate # "body"
          THEN /\ last' = Served(op, roles, sess, commission_id, gate, NoGen)
               /\ UNCHANGED commission
          ELSE IF rows = {}
          THEN /\ last' = Served(op, roles, sess, commission_id, "404", NoGen)
               /\ UNCHANGED commission
          ELSE /\ commission' = (commission \ rows)
                      \cup {[c EXCEPT !.status = IF status = Absent THEN PAID ELSE status]
                             : c \in rows}
               /\ last' = Served(op, roles, sess, commission_id, "ok", NoGen)
       /\ UNCHANGED <<inspection, cha, report, invoice, procs, call, report_file, annexure>>

\* POST /commissions/<commission_id>/update, the amount posted in tenths of a cent
commission_update(sess, commission_id, amount) ==
    LET roles == {ADMIN, ACCOUNTANT}
        gate == role_required(roles, sess)
        op == "commission_update"
        rows == {c \in commission : c.id = commission_id}
    IN /\ IF gate # "body"
          THEN /\ last' = Served(op, roles, sess, commission_id, gate, NoGen)
               /\ UNCHANGED commission
          ELSE IF rows = {}
          THEN /\ last' = Served(op, roles, sess, commission_id, "404", NoGen)
               /\ UNCHANGED commission
          ELSE /\ commission' = (commission \ rows)
                      \cup {[c EXCEPT !.amount = RoundDiv(Max2(0, amount), 10)] : c \in rows}
               /\ last' = Served(op, roles, sess, commission_id, "ok", NoGen)
       /\ UNCHANGED <<inspection, cha, report, invoice, procs, call, report_file, annexure>>

-----------------------------------------------------------------------------
(* Status, report body, report files, annexures *)

ALLOWED_REPORT_EXT == {<<"p", "d", "f">>, <<"d", "o", "c">>, <<"d", "o", "c", "x">>}

UpperChars == <<"A", "B", "C", "D", "E", "F", "G", "H", "I", "J", "K", "L", "M",
                "N", "O", "P", "Q", "R", "S", "T", "U", "V", "W", "X", "Y", "Z">>
LowerChars == <<"a", "b", "c", "d", "e", "f", "g", "h", "i", "j", "k", "l", "m",
                "n", "o", "p", "q", "r", "s", "t", "u", "v", "w", "x", "y", "z">>

\* str.lower()
lower(s) ==
    [k \in 1..Len(s) |->
        IF \E u \in 1..26 : UpperChars[u] = s[k]
        THEN LowerChars[CHOOSE u \in 1..26 : UpperChars[u] = s[k]]
        ELSE s[k]]

\* filename.rsplit(".", 1)[1], for a filename with a dot in it
rsplit_dot_1(filename) ==
    LET dot == Max({k \in 1..Len(filename) : filename[k] = "."})
    IN SubSeq(filename, dot + 1, Len(filename))

\* allowed_report_file(filename)
allowed_report_file(filename) ==
    IF filename = <<>> \/ \A k \in 1..Len(filename) : filename[k] # "." THEN FALSE
    ELSE lower(rsplit_dot_1(filename)) \in ALLOWED_REPORT_EXT

\* POST /inspections/<id>/status
inspection_status(sess, id, status) ==
    LET roles == {ADMIN, ENGINEER}
        gate == role_required(roles, sess)
        op == "inspection_status"
    IN /\ IF gate # "body"
          THEN /\ last' = Served(op, roles, sess, id, gate, NoGen)
               /\ UNCHANGED inspection
          ELSE IF id \notin DOMAIN inspection
          THEN /\ last' = Served(op, roles, sess, id, "404", NoGen)
               /\ UNCHANGED inspection
          ELSE IF sess.role = ENGINEER /\ inspection[id].engineer_id # sess.user_id
          THEN /\ last' = Served(op, roles, sess, id, "unauthorized", NoGen)
               /\ UNCHANGED inspection
          ELSE /\ inspection' = [inspection EXCEPT ![id].status = status]
               /\ last' = Served(op, roles, sess, id, "ok", NoGen)
       /\ UNCHANGED <<cha, report, invoice, commission, procs, call, report_file, annexure>>

\* POST /users/assign/<id>
assign_engineer(sess, id, engineer_id) ==
    LET roles == {ADMIN}
        gate == role_required(roles, sess)
        op == "assign_engineer"
    IN /\ IF gate # "body"
          THEN /\ last' = Served(op, roles, sess, id, gate, NoGen)
               /\ UNCHANGED inspection
          ELSE IF id \notin DOMAIN inspection
          THEN /\ last' = Served(op, roles, sess, id, "404", NoGen)
               /\ UNCHANGED inspection
          ELSE /\ inspection' = [inspection EXCEPT ![id].engineer_id = engineer_id]
               /\ last' = Served(op, roles, sess, id, "ok", NoGen)
       /\ UNCHANGED <<cha, report, invoice, commission, procs, call, report_file, annexure>>

\* ReportFile(...) as report_edit builds it
new_report_file(table, inspection_id, sess, filename) ==
    [id |-> NextId(Ids(table)), inspection_id |-> inspection_id,
     uploader_id |-> sess.user_id, original_name |-> filename]

\* report_edit, the upload: the report row afterwards
uploaded_report(rep) == [rep EXCEPT !.status = FINAL]

\* report_edit, the body: the text that is stored.  tmpl is the html_snippet of
\* the first active template, rendered, or "" if there is none
report_body(form, tmpl) ==
    LET body == IF form.body = Absent THEN "" ELSE form.body
    IN IF form.action = "ai" /\ tmpl # "" THEN tmpl ELSE body

\* report_edit, the body: the report row afterwards
saved_report(rep, form, tmpl) ==
    [rep EXCEPT !.body = report_body(form, tmpl),
                !.status = IF form.save_as = "final" THEN FINAL ELSE DRAFT]

\* a final save moves the inspection on whatever its status
saved_inspection_forced(i, form) ==
    IF form.save_as = "final" THEN [i EXCEPT !.status = COMPLETED] ELSE i

\* report_edit, the body: the inspection row afterwards
saved_inspection(i, form) ==
    IF form.save_as = "final" /\ i.status = UNDER_REVIEW
    THEN [i EXCEPT !.status = COMPLETED]
    ELSE i

\* POST /reports/<inspection_id>/edit.  form.report_file is the filename of the
\* uploaded file, <<>> when the request carries none
report_edit_post(sess, id, form, tmpl) ==
    LET roles == {ADMIN, ENGINEER}
        gate == role_required(roles, sess)
        op == "report_edit_post"
        served(outcome) == [Served(op, roles, sess, id, outcome, NoGen)
                               EXCEPT !.form = <<form>>]
    IN /\ IF gate # "body"
          THEN /\ last' = served(gate)
               /\ UNCHANGED <<inspection, report, report_file>>
          ELSE IF id \notin DOMAIN inspection
          THEN /\ last' = served("404")
               /\ UNCHANGED <<inspection, report, report_file>>
          ELSE LET ensured == ensure_report(report, id)
                   rep == first_for(ensured, id)[1]
               IN IF form.report_file # <<>>
                  THEN IF ~allowed_report_file(form.report_file)
                       THEN /\ report' = ensured
                            /\ last' = served("invalid")
                            /\ UNCHANGED <<inspection, report_file>>
                       ELSE /\ report_file' = report_file \cup
                                   {new_report_file(report_file, id, sess,
                                                    form.report_file)}
                            /\ inspection' =
                                   [inspection EXCEPT ![id].status = REPORT_UPLOADED]
                            /\ report' = (ensured \ {rep}) \cup {uploaded_report(rep)}
                            /\ last' = served("uploaded")
                  ELSE /\ report' = (ensured \ {rep})
                                         \cup {saved_report(rep, form, tmpl)}
                       /\ inspection' =
                              [inspection EXCEPT ![id] = saved_inspection(@, form)]
                       /\ last' = served("saved")
                       /\ UNCHANGED report_file
       /\ UNCHANGED <<cha, invoice, commission, procs, call, annexure>>

\* POST /inspections/<inspection_id>/annexures/add
annexure_add(sess, id) ==
    LET roles == {ADMIN, ENGINEER}
        gate == role_required(roles, sess)
        op == "annexure_add"
    IN /\ IF gate # "body"
          THEN /\ last' = Served(op, roles, sess, id, gate, NoGen)
               /\ UNCHANGED annexure
          ELSE IF id \notin DOMAIN inspection
          THEN /\ last' = Served(op, roles, sess, id, "404", NoGen)
               /\ UNCHANGED annexure
          ELSE /\ annexure' = annexure \cup
                      {[id |-> NextId(Ids(annexure)), inspection_id |-> id]}
               /\ last' = Served(op, roles, sess, id, "ok", NoGen)
       /\ UNCHANGED <<inspection, cha, report, invoice, commission, procs, call,
                      report_file>>

\* POST /annexure/<annexure_id>/delete
annexure_delete(sess, annexure_id) ==
    LET roles == {ADMIN, ENGINEER}
        gate == role_required(roles, sess)
        op == "annexure_delete"
        rows == {a \in annexure : a.id = annexure_id}
    IN /\ IF gate # "body"
          THEN /\ last' = Served(op, roles, sess, annexure_id, gate, NoGen)
               /\ UNCHANGED annexure
          ELSE IF rows = {}
          THEN /\ last' = Served(op, roles, sess, annexure_id, "404", NoGen)
               /\ UNCHANGED annexure
          ELSE /\ annexure' = annexure \ rows
               /\ last' = Served(op, roles, sess, annexure_id, "ok", NoGen)
       /\ UNCHANGED <<inspection, cha, report, invoice, commission, procs, call,
                      report_file>>

-----------------------------------------------------------------------------
(* Requests in flight: a request is served statement by statement, and the  *)
(* statements of two requests interleave.  A SELECT, and a flush with its   *)
(* COMMIT, are the atomic steps.                                            *)

Procs == {1, 2}

Idle == [pc |-> "idle", op |-> "none", id |-> NULL, i |-> <<>>, row |-> <<>>,
         amount |-> NULL]

RaceOps == {"report_edit", "invoice_edit", "commission_generate", "inspection_delete"}

RaceRoles(op) ==
    CASE op = "report_edit" -> {ADMIN, ENGINEER}
      [] op = "invoice_edit" -> {ADMIN, ACCOUNTANT}
      [] op = "commission_generate" -> {ADMIN, ACCOUNTANT}
      [] op = "inspection_delete" -> {ADMIN}

\* the form invoice_edit is posted with while requests interleave
RaceInvoiceForm == [fee |-> 1007, tax_pct |-> ABSENT, status |-> SENT]

\* the request of process p ends
Finish(p, outcome) ==
    /\ procs' = [procs EXCEPT ![p] = Idle]
    /\ last' = Served(procs[p].op, RaceRoles(procs[p].op), Admin1, procs[p].id,
                      outcome, NoGen)

Goto(p, pc) == [procs EXCEPT ![p].pc = pc]

\* a request arrives and passes role_required
RaceStart(p, op, id) ==
    /\ procs[p].pc = "idle"
    /\ role_required(RaceRoles(op), Admin1) = "body"
    /\ procs' = [procs EXCEPT ![p] = [Idle EXCEPT !.pc = "load", !.op = op, !.id = id]]
    /\ UNCHANGED <<db, last, call>>

\* i = Inspection.query.get_or_404(inspection_id)
RaceLoad(p) ==
    LET q == procs[p]
    IN /\ q.pc = "load"
       /\ IF q.id \notin DOMAIN inspection
          THEN Finish(p, "404")
          ELSE /\ procs' = [procs EXCEPT
                     ![p].i = <<inspection[q.id]>>,
                     ![p].pc = CASE q.op = "inspection_delete" -> "delete"
                                 [] q.op = "commission_generate" -> "generate"
                                 [] OTHER -> "ensure_select"]
               /\ UNCHANGED last
       /\ UNCHANGED <<db, call>>

\* ensure_report / ensure_invoice: the SELECT
RaceEnsureSelect(p) ==
    LET q == procs[p]
        found == first_for(IF q.op = "report_edit" THEN report ELSE invoice, q.id)
    IN /\ q.pc = "ensure_select"
       /\ IF found = <<>>
          THEN /\ procs' = Goto(p, "ensure_insert")
               /\ UNCHANGED last
          ELSE IF q.op = "report_edit"
          THEN Finish(p, "ok")
          ELSE /\ procs' = [procs EXCEPT ![p].row = found, ![p].pc = "save"]
               /\ UNCHANGED last
       /\ UNCHANGED <<db, call>>

\* ensure_report: db.session.add(rep); db.session.commit()
RaceEnsureReportInsert(p) ==
    LET q == procs[p]
    IN /\ q.pc = "ensure_insert" /\ q.op = "report_edit"
       /\ IF unique_conflict(report, q.id)
          THEN Finish(p, "IntegrityError") /\ UNCHANGED report
          ELSE Finish(p, "ok") /\ report' = report \cup {new_report(report, q.id)}
       /\ UNCHANGED <<inspection, cha, invoice, commission, call, report_file, annexure>>

\* ensure_invoice: db.session.add(inv); db.session.commit()
RaceEnsureInvoiceInsert(p) ==
    LET q == procs[p]
        inv == new_invoice(invoice, q.id)
    IN /\ q.pc = "ensure_insert" /\ q.op = "invoice_edit"
       /\ IF unique_conflict(invoice, q.id)
          THEN Finish(p, "IntegrityError") /\ UNCHANGED invoice
          ELSE /\ invoice' = invoice \cup {inv}
               /\ procs' = [procs EXCEPT ![p].row = <<inv>>, ![p].pc = "save"]
               /\ UNCHANGED last
       /\ UNCHANGED <<inspection, cha, report, commission, call, report_file, annexure>>

\* invoice_edit: the fields are set on the loaded rows and committed; a row that
\* is gone by then fails the UPDATE
RaceInvoiceSave(p) ==
    LET q == procs[p]
        e == edited_invoice(q.row[1], RaceInvoiceForm)
        gone == \/ \A v \in invoice : v.id # q.row[1].id
                \/ e.status \in {SENT, PAID} /\ q.id \notin DOMAIN inspection
    IN /\ q.pc = "save"
       /\ IF gone
          THEN Finish(p, "StaleDataError") /\ UNCHANGED <<invoice, inspection>>
          ELSE /\ invoice' = {v \in invoice : v.id # e.id} \cup {e}
               /\ inspection' = IF e.status \in {SENT, PAID}
                                 THEN [inspection EXCEPT ![q.id].status = INVOICED]
                                 ELSE inspection
               /\ procs' = Goto(p, "upsert_read")
               /\ UNCHANGED last
       /\ UNCHANGED <<cha, report, commission, call, report_file, annexure>>

\* commission_generate: the check of CHA and override on the loaded inspection
RaceGenerate(p) ==
    LET q == procs[p]
    IN /\ q.pc = "generate"
       /\ IF q.i[1].cha_id \notin DOMAIN cha /\ q.i[1].cha_commission_pct = NULL
          THEN Finish(p, "warning")
          ELSE procs' = Goto(p, "upsert_read") /\ UNCHANGED last
       /\ UNCHANGED <<db, call>>

\* upsert_commission_from_inspection: rate, fee and amount.  invoice_edit has
\* committed, so its inspection is read again; commission_generate has it loaded.
RaceUpsertRead(p) ==
    LET q == procs[p]
    IN /\ q.pc = "upsert_read"
       /\ IF q.op = "invoice_edit" /\ q.id \notin DOMAIN inspection
          THEN Finish(p, "ObjectDeletedError")
          ELSE LET i == IF q.op = "invoice_edit" THEN inspection[q.id] ELSE q.i[1]
               IN /\ procs' = [procs EXCEPT
                        ![p].i = <<i>>,
                        ![p].amount = commission_amount(q.id, i, cha, invoice),
                        ![p].pc = "upsert_select"]
                  /\ UNCHANGED last
       /\ UNCHANGED <<db, call>>

\* upsert_commission_from_inspection: the SELECT of the commission
RaceUpsertSelect(p) ==
    LET q == procs[p]
    IN /\ q.pc = "upsert_select"
       /\ procs' = [procs EXCEPT ![p].row = first_for(commission, q.id),
                                 ![p].pc = "upsert_write"]
       /\ UNCHANGED <<db, last, call>>

\* upsert_commission_from_inspection: the INSERT or the UPDATE, and the commit
RaceUpsertWrite(p) ==
    LET q == procs[p]
    IN /\ q.pc = "upsert_write"
       /\ IF q.row = <<>>
          THEN IF unique_conflict(commission, q.id)
               THEN Finish(p, "IntegrityError") /\ UNCHANGED commission
               ELSE /\ commission' = commission \cup
                          {[id |-> NextId(Ids(commission)), inspection_id |-> q.id,
                            cha_id |-> q.i[1].cha_id, amount |-> q.amount,
                            status |-> DUE]}
                    /\ Finish(p, "ok")
          ELSE IF \A c \in commission : c.id # q.row[1].id
               THEN Finish(p, "StaleDataError") /\ UNCHANGED commission
               ELSE /\ commission' =
                          {IF c.id = q.row[1].id
                           THEN [c EXCEPT !.cha_id = q.i[1].cha_id, !.amount = q.amount]
                           ELSE c : c \in commission}
                    /\ Finish(p, "ok")
       /\ UNCHANGED <<inspection, cha, report, invoice, call, report_file, annexure>>

\* inspection_delete: the DELETEs and the commit
RaceDelete(p) ==
    LET q == procs[p]
    IN /\ q.pc = "delete"
       /\ IF q.id \notin DOMAIN inspection
          THEN Finish(p, "StaleDataError")
               /\ UNCHANGED <<inspection, report, invoice, commission, report_file,
                              annexure>>
          ELSE /\ report' = {r \in report : r.inspection_id # q.id}
               /\ invoice' = {r \in invoice : r.inspection_id # q.id}
               /\ commission' = {r \in commission : r.inspection_id # q.id}
               /\ report_file' = delete_files(report_file, q.id)
               /\ annexure' = deassociate(annexure, q.id)
               /\ inspection' = [j \in DOMAIN inspection \ {q.id} |-> inspection[j]]
               /\ Finish(p, "ok")
       /\ UNCHANGED <<cha, call>>

\* inspection_create: db.session.add(i); db.session.commit()
RaceCreateInsert(p, form) ==
    LET id == NextId(DOMAIN inspection)
    IN /\ procs[p].pc = "idle"
       /\ role_required({ADMIN, ENGINEER}, Admin1) = "body"
       /\ inspection' = inspection @@ (id :> new_inspection(Admin1, form))
       /\ procs' = [procs EXCEPT ![p] = [Idle EXCEPT !.pc = "generate_public_id",
                                                     !.op = "inspection_create",
                                                     !.id = id]]
       /\ UNCHANGED <<cha, report, invoice, commission, report_file, annexure, last,
                      call>>

\* generate_public_id: the SELECT of the maximum, and the fields set on i
RaceCreateRead(p) ==
    LET q == procs[p]
    IN /\ q.pc = "generate_public_id"
       /\ procs' = [procs EXCEPT
             ![p].i = <<generate_public_id(inspection[q.id], inspection)>>,
             ![p].pc = "commit_public_id"]
       /\ UNCHANGED <<db, last, call>>

\* inspection_create: the db.session.commit() after generate_public_id
RaceCreateWrite(p) ==
    LET q == procs[p]
        g == q.i[1]
        conflict == public_id_conflict(q.id, g, inspection)
    IN /\ q.pc = "commit_public_id"
       /\ inspection' = IF conflict THEN inspection
                         ELSE [inspection EXCEPT ![q.id] = g]
       /\ procs' = [procs EXCEPT ![p] = Idle]
       /\ last' = Served("inspection_create", {ADMIN, ENGINEER}, Admin1, q.id,
                         IF conflict THEN "IntegrityError" ELSE "ok", Gen(g))
       /\ UNCHANGED <<cha, report, invoice, commission, report_file, annexure, call>>

-----------------------------------------------------------------------------
(* Specifications *)

Init ==
    /\ inspection = <<>>
    /\ cha = <<>>
    /\ report = {}
    /\ invoice = {}
    /\ commission = {}
    /\ report_file = {}
    /\ annexure = {}
    /\ last = NoRequest
    /\ procs = <<>>
    /\ call = <<>>

\* Inspection types a form may carry: the three known ones and two others
FormTypes == {PSIC, CE_VAL, CE_FIT, "SURVEY", "AUDIT"}
\* Years of the dates a form may carry
FormYears == {999, 2025, 2026}

\* A form that carries a date and an inspection type and leaves the rest blank
IdForm(t, y) ==
    [date |-> y, inspection_type |-> t, status |-> Absent, engineer_id |-> NULL,
     cha_id |-> ABSENT, cha_commission_pct |-> NULL, year_of_manufacture |-> NULL,
     annexure_descs |-> 0]

CanCreate(bound) == NextId(DOMAIN inspection) <= bound

\* Spec: an admin creates, edits and deletes inspections, one request at a time
EditTypes == {PSIC, "SURVEY", "AUDIT"}
EditYears == {2025, 2026}
Create == \E t \in EditTypes, y \in EditYears :
    CanCreate(MaxId) /\ inspection_create(Admin1, IdForm(t, y))
Edit == \E id \in 1..MaxId, t \in EditTypes, y \in EditYears :
    inspection_edit(Admin1, id, IdForm(t, y))
Delete == \E id \in 1..MaxId : inspection_delete(Admin1, id)

Next == Create \/ Edit \/ Delete
Spec == Init /\ [][Next]_vars

\* SpecMoney: an admin keeps CHAs, inspections with a CHA or a commission
\* override, their invoices and their commissions, one request at a time
MoneyForm(cha_id, pct) ==
    [date |-> 2025, inspection_type |-> PSIC, status |-> Absent, engineer_id |-> NULL,
     cha_id |-> cha_id, cha_commission_pct |-> pct, year_of_manufacture |-> NULL,
     annexure_descs |-> 0]
\* a blank override, an override of 0 and one of 25 %
FormPcts == {NULL, 0, 25}
\* fees in cents
FormFees == {1007, 20000}

MoneyCreate == \E c \in {NULL} \cup (1..MaxChaId), pct \in FormPcts :
    CanCreate(MaxMoneyId) /\ inspection_create(Admin1, MoneyForm(c, pct))
MoneyEdit == \E id \in 1..MaxMoneyId, c \in {NULL} \cup (1..MaxChaId), pct \in FormPcts :
    inspection_edit(Admin1, id, MoneyForm(c, pct))
MoneyDelete == \E id \in 1..MaxMoneyId : inspection_delete(Admin1, id)
ChaAdd == NextId(DOMAIN cha) <= MaxChaId /\ chas_list(Admin1, 10)
ChaUpdate == \E c \in 1..MaxChaId : chas_update(Admin1, c, 15)
ChaDelete == \E c \in 1..MaxChaId : chas_delete(Admin1, c)
InvoiceOpen == \E id \in 1..MaxMoneyId : invoice_edit(Admin1, id, <<>>)
InvoiceSave == \E id \in 1..MaxMoneyId, fee \in FormFees, st \in {Absent, SENT} :
    invoice_edit(Admin1, id, <<[fee |-> fee, tax_pct |-> ABSENT, status |-> st]>>)
CommissionGenerate == \E id \in 1..MaxMoneyId : commission_generate(Admin1, id)
CommissionMark == \E c \in 1..MaxMoneyId, st \in {Absent, PARTIAL} :
    commission_mark(Admin1, c, st)
CommissionUpdate == \E c \in 1..MaxMoneyId : commission_update(Admin1, c, 5004)

NextMoney ==
    \/ MoneyCreate \/ MoneyEdit \/ MoneyDelete
    \/ ChaAdd \/ ChaUpdate \/ ChaDelete
    \/ InvoiceOpen \/ InvoiceSave
    \/ CommissionGenerate \/ CommissionMark \/ CommissionUpdate
SpecMoney == Init /\ [][NextMoney]_vars

\* SpecAuth: the same requests sent with every kind of session
AuthSessions == {NoSession} \cup {[user_id |-> 1, role |-> r] : r \in Role_ALL}
AuthForm == MoneyForm(NULL, 25)

AuthCreate == \E sess \in AuthSessions :
    CanCreate(MaxMoneyId) /\ inspection_create(sess, AuthForm)
AuthEdit == \E sess \in AuthSessions, id \in 1..MaxMoneyId :
    inspection_edit(sess, id, MoneyForm(NULL, 0))
AuthDelete == \E sess \in AuthSessions, id \in 1..MaxMoneyId :
    inspection_delete(sess, id)
AuthChaAdd == \E sess \in AuthSessions :
    NextId(DOMAIN cha) <= MaxChaId /\ chas_list(sess, 10)
AuthChaUpdate == \E sess \in AuthSessions, c \in 1..MaxChaId : chas_update(sess, c, 15)
AuthChaDelete == \E sess \in AuthSessions, c \in 1..MaxChaId : chas_delete(sess, c)
AuthReportOpen == \E sess \in AuthSessions, id \in 1..MaxMoneyId :
    report_edit_get(sess, id)
AuthInvoiceSave == \E sess \in AuthSessions, id \in 1..MaxMoneyId :
    invoice_edit(sess, id, <<[fee |-> 1007, tax_pct |-> ABSENT, status |-> SENT]>>)
AuthCommissionGenerate == \E sess \in AuthSessions, id \in 1..MaxMoneyId :
    commission_generate(sess, id)
AuthCommissionMark == \E sess \in AuthSessions, c \in 1..MaxMoneyId :
    commission_mark(sess, c, Absent)
AuthCommissionUpdate == \E sess \in AuthSessions, c \in 1..MaxMoneyId :
    commission_update(sess, c, 5004)

NextAuth ==
    \/ AuthCreate \/ AuthEdit \/ AuthDelete
    \/ AuthChaAdd \/ AuthChaUpdate \/ AuthChaDelete
    \/ AuthReportOpen \/ AuthInvoiceSave
    \/ AuthCommissionGenerate \/ AuthCommissionMark \/ AuthCommissionUpdate
SpecAuth == Init /\ [][NextAuth]_vars

\* SpecRace: two requests at a time on inspections that carry an override
InitRace ==
    /\ inspection = <<>>
    /\ cha = <<>>
    /\ report = {}
    /\ invoice = {}
    /\ commission = {}
    /\ report_file = {}
    /\ annexure = {}
    /\ last = NoRequest
    /\ procs = [p \in Procs |-> Idle]
    /\ call = <<>>

\* an inspection is created while no other request is in flight
RaceCreate ==
    /\ \A p \in Procs : procs[p].pc = "idle"
    /\ CanCreate(MaxRaceId)
    /\ inspection_create(Admin1, MoneyForm(NULL, 25))

NextRace ==
    \/ RaceCreate
    \/ \E p \in Procs, op \in RaceOps, id \in 1..MaxRaceId : RaceStart(p, op, id)
    \/ \E p \in Procs :
          \/ RaceLoad(p)
          \/ RaceEnsureSelect(p)
          \/ RaceEnsureReportInsert(p)
          \/ RaceEnsureInvoiceInsert(p)
          \/ RaceInvoiceSave(p)
          \/ RaceGenerate(p)
          \/ RaceUpsertRead(p)
          \/ RaceUpsertSelect(p)
          \/ RaceUpsertWrite(p)
          \/ RaceDelete(p)
SpecRace == InitRace /\ [][NextRace]_vars

\* SpecFlow: an admin and two engineers create, assign, edit and delete
\* inspections, set their status, write and upload their reports and keep
\* their annexures, one request at a time
Engineer2 == [user_id |-> 2, role |-> ENGINEER]
Engineer3 == [user_id |-> 3, role |-> ENGINEER]
Engineers == {Engineer2, Engineer3}
FlowSessions == {Admin1} \cup Engineers

FlowForm(y, status, descs) ==
    [date |-> y, inspection_type |-> CE_FIT, status |-> status, engineer_id |-> NULL,
     cha_id |-> ABSENT, cha_commission_pct |-> NULL, year_of_manufacture |-> NULL,
     annexure_descs |-> descs]

\* names of uploaded files
Filenames == {<<"r", ".", "P", "d", "f">>, <<"r", ".", "d", "o", "c", "x">>,
              <<"r", ".", "p", "d", "f", ".", "t", "x", "t">>,
              <<"r", ".", "t", "x", "t", ".", "d", "o", "c">>,
              <<"p", "d", "f">>}

BodyForm(body, save_as, action) ==
    [report_file |-> <<>>, body |-> body, save_as |-> save_as, action |-> action]
UploadForm(filename) ==
    [report_file |-> filename, body |-> Absent, save_as |-> Absent, action |-> Absent]

FlowCreate == \E sess \in FlowSessions :
    CanCreate(MaxFlowId) /\ inspection_create(sess, FlowForm(2025, Absent, 0))
FlowEdit == \E sess \in FlowSessions, id \in 1..MaxFlowId :
    inspection_edit(sess, id, FlowForm(2026, Absent, 0))
FlowStatus == \E sess \in FlowSessions, id \in 1..MaxFlowId :
    inspection_status(sess, id, UNDER_REVIEW)
FlowAssign == \E sess \in FlowSessions, id \in 1..MaxFlowId :
    assign_engineer(sess, id, 3)
FlowReportOpen == \E sess \in FlowSessions, id \in 1..MaxFlowId :
    report_edit_get(sess, id)
FlowReportSave == \E sess \in FlowSessions, id \in 1..MaxFlowId,
                     save_as \in {Absent, "final"} :
    \/ \E body \in {"", "text"} :
          report_edit_post(sess, id, BodyForm(body, save_as, Absent), "")
    \/ report_edit_post(sess, id, BodyForm("", save_as, "ai"), "snippet")
FlowReportUpload == \E sess \in FlowSessions, id \in 1..MaxFlowId, f \in Filenames :
    /\ Cardinality(report_file) < MaxFiles
    /\ report_edit_post(sess, id, UploadForm(f), "")
\* the handlers of the admin and of the accountant, called by an engineer
FlowOthers == \E sess \in Engineers, id \in 1..MaxFlowId :
    \/ inspection_delete(sess, id)
    \/ invoice_edit(sess, id, <<[fee |-> 1007, tax_pct |-> ABSENT, status |-> SENT]>>)
    \/ commission_generate(sess, id)

NextFlow ==
    \/ FlowCreate \/ FlowEdit \/ FlowStatus \/ FlowAssign
    \/ FlowReportOpen \/ FlowReportSave \/ FlowReportUpload \/ FlowOthers
SpecFlow == Init /\ [][NextFlow]_vars

\* SpecClean: an admin creates inspections with annexures, opens their report
\* and invoice, uploads report files, generates commissions and deletes the
\* inspections; an engineer adds and deletes annexure rows
CleanForm(descs) ==
    [date |-> 2025, inspection_type |-> CE_FIT, status |-> Absent, engineer_id |-> NULL,
     cha_id |-> NULL, cha_commission_pct |-> 25, year_of_manufacture |-> NULL,
     annexure_descs |-> descs]

CleanCreate == \E d \in {0, 1} :
    /\ CanCreate(MaxCleanId)
    /\ Cardinality(annexure) + d <= MaxAnnexures
    /\ inspection_create(Admin1, CleanForm(d))
CleanDelete == \E id \in 1..MaxCleanId : inspection_delete(Admin1, id)
CleanReportOpen == \E id \in 1..MaxCleanId : report_edit_get(Admin1, id)
CleanUpload == \E id \in 1..MaxCleanId :
    /\ Cardinality(report_file) < MaxCleanFiles
    /\ report_edit_post(Admin1, id, UploadForm(<<"r", ".", "d", "o", "c">>), "")
CleanInvoiceOpen == \E id \in 1..MaxCleanId : invoice_edit(Admin1, id, <<>>)
CleanGenerate == \E id \in 1..MaxCleanId : commission_generate(Admin1, id)
CleanAnnexureAdd == \E id \in 1..MaxCleanId :
    /\ Cardinality(annexure) < MaxAnnexures
    /\ annexure_add(Engineer2, id)
CleanAnnexureDelete == \E a \in 1..MaxAnnexures : annexure_delete(Engineer2, a)

NextClean ==
    \/ CleanCreate \/ CleanDelete \/ CleanReportOpen \/ CleanUpload
    \/ CleanInvoiceOpen \/ CleanGenerate \/ CleanAnnexureAdd \/ CleanAnnexureDelete
SpecClean == Init /\ [][NextClean]_vars

\* SpecCreateRace: two inspection_create requests at a time, all of them for
\* PSIC inspections
RaceYears == {2025, 2026}
NextCreateRace ==
    \E p \in Procs :
        \/ \E y \in RaceYears :
              CanCreate(MaxRaceCreated) /\ RaceCreateInsert(p, IdForm(PSIC, y))
        \/ RaceCreateRead(p)
        \/ RaceCreateWrite(p)
SpecCreateRace == InitRace /\ [][NextCreateRace]_vars

\* SpecCreate: inspections are only ever created, one request at a time
CreateOnly == \E t \in FormTypes, y \in FormYears :
    CanCreate(MaxCreated) /\ inspection_create(Admin1, IdForm(t, y))
SpecCreate == Init /\ [][CreateOnly]_vars

-----------------------------------------------------------------------------
(* Claims about the public id *)

IsPrefix(p, s) == Len(p) <= Len(s) /\ SubSeq(s, 1, Len(p)) = p

\* The value of a string of digits
RECURSIVE int(_)
int(s) == IF s = <<>> THEN 0 ELSE 10 * int(SubSeq(s, 1, Len(s) - 1))
                                  + (CHOOSE d \in 0..9 : DigitChars[d + 1] = s[Len(s)])

\* INS-<type token>-<year>-, the head of the public id of an inspection of type t
\* dated in year y
IdHead(t, y) ==
    <<"I", "N", "S", "-">>
    \o (IF t = PSIC THEN <<"P", "S", "I", "C">>
        ELSE IF t = CE_VAL THEN <<"C", "E", "-", "V", "A", "L">>
        ELSE IF t = CE_FIT THEN <<"C", "E", "-", "F", "I", "T">>
        ELSE <<"G", "E", "N">>)
    \o <<"-">> \o str(y) \o <<"-">>

\* The stored inspections other than id of type t dated in calendar year y
OthersOfTypeYear(id, t, y) ==
    {j \in DOMAIN inspection \ {id} :
        inspection[j].inspection_type = t /\ inspection[j].date = y}

\* C1: under create, edit and delete requests served one at a time,
\* generate_public_id never assigns a public_id that another stored inspection
\* holds, and all non-null public_ids are pairwise distinct.
C1_PublicIdsDistinct ==
    /\ \A a, b \in DOMAIN inspection :
           a # b /\ inspection[a].public_id # NoPublicId
               => inspection[a].public_id # inspection[b].public_id
    /\ last.gen.called =>
           \A j \in DOMAIN inspection \ {last.id} :
               inspection[j].public_id # last.gen.public_id

\* C2: generate_public_id on an inspection without public_id sets seq_num to
\* 1 plus the largest seq_num among the stored inspections of the same type
\* and calendar year (1 if there is none) and public_id to
\* INS-<token>-<year>-<seq_num in at least 3 digits>.
C2_NextInTypeYear ==
    last.gen.called =>
        LET g == last.gen
            seqs == {inspection[j].seq_num :
                        j \in OthersOfTypeYear(last.id, g.inspection_type, g.year)}
                    \ {NULL}
            head == IdHead(g.inspection_type, g.year)
            digits == SubSeq(g.public_id, Len(head) + 1, Len(g.public_id))
        IN /\ g.seq_num = (IF seqs = {} THEN 0 ELSE Max(seqs)) + 1
           /\ IsPrefix(head, g.public_id)
           /\ Len(digits) >= 3
           /\ Len(digits) > 3 => digits[1] # "0"
           /\ int(digits) = g.seq_num

\* C3: when inspections are only created, one at a time, the n-th inspection
\* created for a type and year has seq_num n (primary keys grow in the order
\* of creation).
C3_SeqIsCreationOrder ==
    \A id \in DOMAIN inspection :
        inspection[id].seq_num =
            Cardinality({j \in OthersOfTypeYear(id, inspection[id].inspection_type,
                                                inspection[id].date) : j < id}) + 1

\* C10: once an inspection has a public_id, no request changes its public_id
\* or its seq_num, whatever it does to its date or its type.
C10_PublicIdKept ==
    [][\A id \in DOMAIN inspection \cap DOMAIN inspection' :
          inspection[id].public_id # NoPublicId
              => /\ inspection'[id].public_id = inspection[id].public_id
                 /\ inspection'[id].seq_num = inspection[id].seq_num]_vars

\* An edit went through on an inspection whose public_id no longer matches its
\* type and year
C10_Witness ==
    /\ last.op = "inspection_edit" /\ last.outcome = "ok"
    /\ last.id \in DOMAIN inspection
    /\ inspection[last.id].public_id # NoPublicId
    /\ ~IsPrefix(IdHead(inspection[last.id].inspection_type, inspection[last.id].date),
                 inspection[last.id].public_id)

-----------------------------------------------------------------------------
(* Claims about the commission *)

\* C4: after upsert_commission_from_inspection(i) the commission amount of i is
\* round(fee * rate / 100, 2): fee the fee of i's invoice (0 without invoice),
\* rate the override cha_commission_pct if it is not null (0 included),
\* otherwise the rate of the linked CHA, otherwise 0.
C4_CommissionAmount ==
    last.upsert # NULL =>
        LET id == last.upsert
            i == inspection[id]
            invs == {v \in invoice : v.inspection_id = id}
            fee == IF invs = {} THEN 0 ELSE (CHOOSE v \in invs : TRUE).fee
            rate == IF i.cha_commission_pct # NULL THEN i.cha_commission_pct
                    ELSE IF i.cha_id \in DOMAIN cha THEN cha[i.cha_id].commission_rate
                    ELSE 0
            coms == {c \in commission : c.inspection_id = id}
        IN /\ coms # {}
           \* amounts are in cents: the nearest whole number of cents
           /\ \A c \in coms :
                  /\ 2 * (100 * c.amount - fee * rate) <= 100
                  /\ 2 * (fee * rate - 100 * c.amount) <= 100

\* A commission worked out with an override of 0 on an inspection whose CHA has
\* a rate and whose invoice has a fee
C4_Witness ==
    /\ last.upsert # NULL
    /\ inspection[last.upsert].cha_commission_pct = 0
    /\ inspection[last.upsert].cha_id \in DOMAIN cha
    /\ cha[inspection[last.upsert].cha_id].commission_rate > 0
    /\ \E v \in invoice : v.inspection_id = last.upsert /\ v.fee > 0
    /\ \E c \in commission : c.inspection_id = last.upsert /\ c.amount = 0

-----------------------------------------------------------------------------
(* Claims about the role gate *)

\* C7: a handler wrapped by role_required(R1, ...) runs its body only when the
\* session holds a user_id and its role is one of R1, ...; a request without
\* login is redirected to login, one with another role to the dashboard, and
\* neither changes the database.
C7_RoleGate ==
    [][LET redirected == last'.outcome \in {"login", "dashboard"}
       IN /\ ~redirected => last'.user_id # NULL /\ last'.role \in last'.roles
          /\ last'.user_id = NULL => last'.outcome = "login"
          /\ last'.user_id # NULL /\ last'.role \notin last'.roles
                 => last'.outcome = "dashboard"
          /\ redirected => db' = db]_vars

\* An engineer asked for the deletion of an inspection and was sent to the
\* dashboard; the inspection is still there
C7_Witness ==
    /\ last.op = "inspection_delete"
    /\ last.role = ENGINEER
    /\ last.outcome = "dashboard"
    /\ last.id \in DOMAIN inspection

-----------------------------------------------------------------------------
(* Claims about the rows that hang on an inspection *)

RowsOf(table, id) == {r \in table : r.inspection_id = id}

\* a step adds a row to the table only for an inspection that had none, and the
\* row an inspection has stays the same row unless it is deleted
CreatedOnlyWhenMissing(table, table2) ==
    /\ \A r \in table2 :
           r.id \notin Ids(table) => RowsOf(table, r.inspection_id) = {}
    /\ \A r \in table : \A r2 \in table2 :
           r.inspection_id = r2.inspection_id => r.id = r2.id

\* C8: in every reachable state, also when two requests for the same
\* inspection interleave, an inspection has at most one Report row, one
\* Invoice row and one Commission row; ensure_report, ensure_invoice and
\* upsert_commission_from_inspection create a row only when the inspection has
\* none and otherwise keep the one it has.
C8_AtMostOneRow ==
    [][/\ \A id \in 1..(MaxRaceId + 1) :
             /\ Cardinality(RowsOf(report', id)) <= 1
             /\ Cardinality(RowsOf(invoice', id)) <= 1
             /\ Cardinality(RowsOf(commission', id)) <= 1
       /\ CreatedOnlyWhenMissing(report, report')
       /\ CreatedOnlyWhenMissing(invoice, invoice')
       /\ CreatedOnlyWhenMissing(commission, commission')]_vars

\* Two requests for the same inspection each found no commission; one has
\* inserted its row and the other was refused
C8_Witness ==
    /\ last.op = "commission_generate"
    /\ last.outcome = "IntegrityError"
    /\ Cardinality(RowsOf(commission, last.id)) = 1

-----------------------------------------------------------------------------
(* SpecDepr: the depreciation schedule on its own *)

\* year_of_manufacture: missing, 0, or a year
DeprYoms == {NULL, 0} \cup (2010..2026)
\* the year of the inspection date
DeprDates == 2024..2026

DeprCall(yom, on_date, ret, prev) ==
    [op |-> "compute_depreciation_pct", year_of_manufacture |-> yom,
     on_date |-> on_date, ret |-> ret, prev |-> prev]

InitDepr ==
    /\ inspection = <<>>
    /\ cha = <<>>
    /\ report = {}
    /\ invoice = {}
    /\ commission = {}
    /\ report_file = {}
    /\ annexure = {}
    /\ last = NoRequest
    /\ procs = <<>>
    /\ \E yom \in DeprYoms, on_date \in DeprDates :
           call = DeprCall(yom, on_date, NULL, <<>>)

\* the call returns
Depreciate ==
    /\ call.ret = NULL
    /\ call' = [call EXCEPT !.ret = compute_depreciation_pct(call.year_of_manufacture,
                                                            call.on_date)]
    /\ UNCHANGED <<db, last, procs>>

\* the percentage is computed again for another year of manufacture and date, as
\* inspection_edit does; the call before is kept for comparison
DepreciateAgain ==
    /\ call.ret # NULL
    /\ \E yom \in DeprYoms, on_date \in DeprDates :
           call' = DeprCall(yom, on_date, compute_depreciation_pct(yom, on_date),
                            <<[year_of_manufacture |-> call.year_of_manufacture,
                               on_date |-> call.on_date, ret |-> call.ret]>>)
    /\ UNCHANGED <<db, last, procs>>

NextDepr == Depreciate \/ DepreciateAgain
SpecDepr == InitDepr /\ [][NextDepr]_vars

\* C5: compute_depreciation_pct returns a value from 0 to the cap of 70; it
\* returns 0 when year_of_manufacture is missing or 0 and when the year of
\* manufacture is the inspection year or a later one.
C5_DepreciationBounds ==
    call.ret # NULL =>
        /\ 0 <= call.ret /\ call.ret <= 70
        /\ call.year_of_manufacture \in {NULL, 0} => call.ret = 0
        /\ call.year_of_manufacture >= call.on_date => call.ret = 0

\* A machine old enough for the cap to cut the schedule, and the two cases of 0
C5_Witness ==
    /\ call.ret = 70
    /\ call.year_of_manufacture # NULL
    /\ call.on_date - call.year_of_manufacture > 12
    /\ call.prev # <<>>
    /\ call.prev[1].ret = 0
    /\ call.prev[1].year_of_manufacture >= call.prev[1].on_date

\* The percentage the default schedule gives at an age of at least 1
ScheduleAt(age) ==
    IF age = 1 THEN 10
    ELSE IF age = 2 THEN 18
    ELSE IF age = 3 THEN 25
    ELSE IF age <= 11 THEN 25 + 5 * (age - 3)
    ELSE 70

\* C6 as stated: with age = inspection year - year of manufacture, the result
\* is 10, 18, 25, 25 + 5 * (age - 3) up to age 11 and 70 from age 12 on, and
\* it never decreases as the age increases.
C6_Schedule ==
    /\ call.ret # NULL /\ call.year_of_manufacture # NULL
           /\ call.on_date - call.year_of_manufacture >= 1
        => call.ret = ScheduleAt(call.on_date - call.year_of_manufacture)
    /\ call.ret # NULL /\ call.prev # <<>>
           /\ call.year_of_manufacture # NULL
           /\ call.prev[1].year_of_manufacture # NULL
           /\ call.on_date - call.year_of_manufacture
                  >= call.prev[1].on_date - call.prev[1].year_of_manufacture
        => call.ret >= call.prev[1].ret

\* C6 amended: the same for a year of manufacture that is present and not 0.
C6_ScheduleGivenYear ==
    /\ call.ret # NULL /\ call.year_of_manufacture \notin {NULL, 0}
           /\ call.on_date - call.year_of_manufacture >= 1
        => call.ret = ScheduleAt(call.on_date - call.year_of_manufacture)
    /\ call.ret # NULL /\ call.prev # <<>>
           /\ call.year_of_manufacture \notin {NULL, 0}
           /\ call.prev[1].year_of_manufacture \notin {NULL, 0}
           /\ call.on_date - call.year_of_manufacture
                  >= call.prev[1].on_date - call.prev[1].year_of_manufacture
        => call.ret >= call.prev[1].ret

\* The schedule reaches the cap exactly at age 12, after 65 at age 11
C6_Witness ==
    /\ call.ret = 70
    /\ call.year_of_manufacture # NULL
    /\ call.on_date - call.year_of_manufacture = 12
    /\ call.prev # <<>>
    /\ call.prev[1].ret = 65
    /\ call.prev[1].on_date - call.prev[1].year_of_manufacture = 11

-----------------------------------------------------------------------------
(* SpecDiff: the audit-log diff helper on its own *)

\* d.get(k)
dict_get(d, k) == IF k \in DOMAIN d THEN d[k] ELSE NULL

\* the diff over the keys of before alone
dict_diff_before_keys(before, after) ==
    [k \in {x \in DOMAIN before : dict_get(before, x) # dict_get(after, x)}
        |-> <<dict_get(before, k), dict_get(after, k)>>]

\* dict_diff(before, after)
dict_diff(before, after) ==
    [k \in {x \in DOMAIN before \cup DOMAIN after :
                dict_get(before, x) # dict_get(after, x)}
        |-> <<dict_get(before, k), dict_get(after, k)>>]

DiffKeys == {"status", "engineer_id"}
\* a value may be None
DiffVals == {NULL, 0, 1}
Dicts == UNION {[K -> DiffVals] : K \in SUBSET DiffKeys}

InitDiff ==
    /\ inspection = <<>>
    /\ cha = <<>>
    /\ report = {}
    /\ invoice = {}
    /\ commission = {}
    /\ report_file = {}
    /\ annexure = {}
    /\ last = NoRequest
    /\ procs = <<>>
    /\ \E before \in Dicts, after \in Dicts :
           call = [op |-> "dict_diff", before |-> before, after |-> after,
                   done |-> FALSE, ret |-> <<>>]

\* the call returns
Diff ==
    /\ ~call.done
    /\ call' = [call EXCEPT !.done = TRUE, !.ret = dict_diff(call.before, call.after)]
    /\ UNCHANGED <<db, last, procs>>

SpecDiff == InitDiff /\ [][Diff]_vars

\* the value of key k in d, None when d has no key k
ValueOrNone(d, k) == IF k \in DOMAIN d THEN d[k] ELSE NULL

\* C9: the keys of dict_diff(before, after) are exactly the keys whose values
\* differ, a missing key counting as None; each maps to [old, new]; the diff
\* of a dict with itself is empty.
C9_DictDiff ==
    call.done =>
        /\ \A k \in DiffKeys :
               /\ k \in DOMAIN call.ret
                      <=> ValueOrNone(call.before, k) # ValueOrNone(call.after, k)
               /\ k \in DOMAIN call.ret
                      => call.ret[k] = <<ValueOrNone(call.before, k),
                                         ValueOrNone(call.after, k)>>
        /\ DOMAIN call.ret \subseteq DiffKeys
        /\ call.before = call.after => DOMAIN call.ret = {}

\* A diff with a key only after has, reported, and a key whose value is None
\* on one side and missing on the other, not reported
C9_Witness ==
    /\ call.done
    /\ \E k \in DOMAIN call.after \ DOMAIN call.before : k \in DOMAIN call.ret
    /\ \E k \in DOMAIN call.before \ DOMAIN call.after : k \notin DOMAIN call.ret

-----------------------------------------------------------------------------
(* Claims about ownership, deletion, report saving and upload *)

\* C11: no request made with an engineer's session changes an inspection whose
\* engineer_id differs from the session's user_id: such a row is still there
\* afterwards, with every field and its status as before.
C11_EngineerOwnOnly ==
    [][last'.role = ENGINEER =>
         \A id \in DOMAIN inspection :
             inspection[id].engineer_id # last'.user_id =>
                 /\ id \in DOMAIN inspection'
                 /\ inspection'[id] = inspection[id]]_vars

DependentsOf(id) ==
    {r \in report \cup invoice \cup commission \cup report_file \cup annexure :
        r.inspection_id = id}

C15_SaveBody ==
    [][(last'.op = "report_edit_post" /\ last'.outcome = "saved") =>
         LET id == last'.id
             final == last'.form[1].save_as = "final"
             reps == {r \in report' : r.inspection_id = id}
         IN /\ reps # {}
            /\ \A r \in reps : r.status = IF final THEN FINAL ELSE DRAFT
            /\ inspection'[id].status =
                   IF final /\ inspection[id].status = UNDER_REVIEW THEN COMPLETED
                   ELSE inspection[id].status
            /\ inspection[id].status # REPORT_UPLOADED
                   => inspection'[id].status # REPORT_UPLOADED]_vars

\* a final save has completed an inspection that was under review
C15_Witness ==
    /\ last.op = "report_edit_post" /\ last.outcome = "saved"
    /\ last.form[1].save_as = "final"
    /\ last.id \in DOMAIN inspection
    /\ inspection[last.id].status = COMPLETED
    /\ \E r \in report : r.inspection_id = last.id /\ r.status = FINAL

\* pdf, doc or docx, in any case, after the last dot of the name
HasAllowedExtension(f) ==
    \E k \in 1..Len(f) :
        /\ f[k] = "."
        /\ \A j \in (k + 1)..Len(f) : f[j] # "."
        /\ lower(SubSeq(f, k + 1, Len(f)))
               \in {<<"p", "d", "f">>, <<"d", "o", "c">>, <<"d", "o", "c", "x">>}

\* C16: an upload with an allowed extension adds one ReportFile row, sets the
\* inspection status to REPORT_UPLOADED and makes the report FINAL if it has a
\* body, a report with an empty body keeping its status; an upload with any
\* other extension adds no ReportFile and leaves both statuses as they were.
C16_Upload ==
    [][(/\ last'.op = "report_edit_post"
        /\ last'.outcome \in {"uploaded", "invalid"}) =>
         LET id == last'.id
             f == last'.form[1].report_file
             before == {r \in report : r.inspection_id = id}
             after == {r \in report' : r.inspection_id = id}
             \* the status of the report as the request finds or creates it
             status == IF before = {} THEN DRAFT
                       ELSE (CHOOSE r \in before : TRUE).status
             body == IF before = {} THEN "" ELSE (CHOOSE r \in before : TRUE).body
         IN IF HasAllowedExtension(f)
            THEN /\ \E row \in report_file' \ report_file :
                        /\ report_file' = report_file \cup {row}
                        /\ row.inspection_id = id
                 /\ inspection'[id].status = REPORT_UPLOADED
                 /\ \A r \in after :
                        r.status = IF body # "" THEN FINAL ELSE status
            ELSE /\ report_file' = report_file
                 /\ inspection'[id].status = inspection[id].status
                 /\ \A r \in after : r.status = status]_vars

-----------------------------------------------------------------------------
(* Claims about the commission row *)

\* the inspection has neither a CHA nor an override of the commission
NoChaNoOverride(i) == i.cha_id \notin DOMAIN cha /\ i.cha_commission_pct = NULL

\* C13: saving an invoice recalculates the commission of an inspection that
\* has an override or a CHA; for an inspection with neither, it creates no
\* Commission row and changes none.
C13_InvoiceSaveCommission ==
    [][(last'.op = "invoice_edit" /\ last'.upsert # NULL) =>
         LET id == last'.id
         IN IF NoChaNoOverride(inspection[id])
            THEN commission' = commission
            ELSE \E c \in commission' :
                    /\ c.inspection_id = id
                    /\ c.amount = commission_amount(id, inspection[id], cha, invoice')
       ]_vars

\* C14: commission_generate on an inspection without CHA and with a null
\* override answers with the warning and changes nothing in the database.
C14_GenerateWarns ==
    [][(/\ last'.op = "commission_generate"
        /\ last'.role \in {ADMIN, ACCOUNTANT}
        /\ last'.id \in DOMAIN inspection
        /\ NoChaNoOverride(inspection[last'.id])) =>
         /\ last'.outcome = "warning"
         /\ db' = db]_vars

\* the warning was given for an inspection that has a commission of an amount
\* other than 0, from the time it had an override
C14_Witness ==
    /\ last.op = "commission_generate" /\ last.outcome = "warning"
    /\ \E c \in commission : c.inspection_id = last.id /\ c.amount > 0

\* C17: the upsert for an inspection that has a Commission row changes the
\* amount and the cha_id of that row and nothing else of it, its status
\* included, and leaves the other rows alone; a row it creates is DUE.
C17_UpsertKeepsStatus ==
    [][last'.upsert # NULL =>
         LET id == last'.upsert
             before == {c \in commission : c.inspection_id = id}
             after == {c \in commission' : c.inspection_id = id}
         IN /\ {c \in commission' : c.inspection_id # id}
                   = {c \in commission : c.inspection_id # id}
            /\ Cardinality(after) = 1
            /\ IF before = {}
               THEN \A c \in after : c.status = DUE
               ELSE \A c \in after : \E b \in before :
                       /\ c.id = b.id
                       /\ c.status = b.status
                       /\ c.cha_id = inspection'[id].cha_id
                       /\ c.amount = commission_amount(id, inspection'[id], cha,
                                                       invoice')]_vars

\* an invoice save has recalculated a commission that was marked PAID or
\* PARTIAL, and the mark is still there
C17_Witness ==
    /\ last.op = "invoice_edit" /\ last.upsert # NULL
    /\ \E c \in commission : c.inspection_id = last.upsert /\ c.status \in {PAID, PARTIAL}

-----------------------------------------------------------------------------
(* Claim about creations that interleave *)

\* C18: once the inspection_create requests have ended, however they
\* interleaved, every inspection has a public_id, and two inspections of the
\* same type and year differ in public_id and in seq_num.
C18_InterleavedCreate ==
    (\A p \in Procs : procs[p].pc = "idle") =>
        /\ \A a \in DOMAIN inspection :
               inspection[a].public_id # NoPublicId /\ inspection[a].seq_num # NULL
        /\ \A a, b \in DOMAIN inspection :
               (/\ a # b
                /\ inspection[a].inspection_type = inspection[b].inspection_type
                /\ inspection[a].date = inspection[b].date) =>
                   /\ inspection[a].public_id # inspection[b].public_id
                   /\ inspection[a].seq_num # inspection[b].seq_num

=============================================================================
